---- MODULE Spec2Model ----
(***************************************************************************)
(* Model of honnef.co/go/unused (src/unused/unused.go): Checker.Check, the *)
(* unused-symbol analysis over a type-checked program model.               *)
(*                                                                         *)
(* The program model (go/loader's output) is an input: a catalogue of     *)
(* types.Object values of two analysed packages ("cmd", package main, and  *)
(* its external test package "cmd_test"), of one package that is imported  *)
(* but not analysed ("ext") and of the universe scope, plus the usage      *)
(* occurrences and the composite literals of the syntax trees, which Init  *)
(* draws from bounded sets.  Names and file names are sequences of         *)
(* characters, so that Exported, HasPrefix and HasSuffix are computed.     *)
(***************************************************************************)
EXTENDS Integers, Sequences, FiniteSets, TLC

(* ---------------------------------------------------------------- bounds *)
\* number of calls of Check on one Checker
MaxRuns == 2
\* number of distinct (package, symbol) usage occurrences of the program
MaxUses == 2

(* ------------------------------------------------------- CheckMode bits *)
CheckConstants == 1
CheckFields == 2
CheckFunctions == 4
CheckTypes == 8
CheckVariables == 16

\* the masks a Checker is constructed with
Modes ==
    {0, CheckConstants, CheckFields, CheckFunctions, CheckTypes, CheckVariables,
     CheckFields + CheckVariables,
     CheckConstants + CheckFields + CheckFunctions + CheckTypes + CheckVariables}

\* c.Mode & bit > 0
HasBit(mode, bit) == (mode \div bit) % 2 = 1

(* --------------------------------------------------------------- strings *)
HasPrefix(s, p) == Len(s) >= Len(p) /\ SubSeq(s, 1, Len(p)) = p
HasSuffix(s, p) == Len(s) >= Len(p) /\ SubSeq(s, Len(s) - Len(p) + 1, Len(s)) = p

UpperCase == {"A", "B", "E", "F", "H", "L", "S", "T", "W"}
\* types.Object.Exported: the name starts with an upper-case letter
Exported(name) == Len(name) > 0 /\ Head(name) \in UpperCase

StrTest == <<"T", "e", "s", "t">>
StrBenchmark == <<"B", "e", "n", "c", "h", "m", "a", "r", "k">>
StrExample == <<"E", "x", "a", "m", "p", "l", "e">>
StrTestGo == <<"_", "t", "e", "s", "t", ".", "g", "o">>
StrBlank == <<"_">>
StrMain == <<"m", "a", "i", "n">>
StrInit == <<"i", "n", "i", "t">>

(* ------------------------------------------------- the program's packages *)
NoPkg == "nil"
NoRecv == "none"
NoScope == "noscope"
FuncScope == "func"

\* types.Package.Name of each package path
PkgName == [cmd |-> StrMain,
            cmd_test |-> <<"m", "a", "i", "n", "_", "t", "e", "s", "t">>,
            ext |-> <<"e", "x", "t">>]

FileMain == <<"m", ".", "g", "o">>
FileExport == <<"e", "_", "t", "e", "s", "t", ".", "g", "o">>
FileXTest == <<"x", "_", "t", "e", "s", "t", ".", "g", "o">>
FileExt == <<"e", "x", "t", ".", "g", "o">>

(* ------------------------------------------------------------ go/types  *)
\* a types.Type: its shape, its underlying type, the methods of an
\* interface, the fields of a struct (symbol ids, in declaration order)
Ty(shape, under, methods, fields) ==
    [shape |-> shape, under |-> under, methods |-> methods, fields |-> fields]
Meth(name, sig) == [name |-> name, sig |-> sig]

NWrite == <<"W", "r", "i", "t", "e">>
NRead == <<"r", "e", "a", "d">>
NString == <<"S", "t", "r", "i", "n", "g">>

Typ ==
    [int      |-> Ty("Basic", "int", {}, <<>>),
     sig      |-> Ty("Signature", "sig", {}, <<>>),
     slice    |-> Ty("Slice", "slice", {}, <<>>),
     st_t     |-> Ty("Struct", "st_t", {}, <<"a", "b">>),
     t        |-> Ty("Named", "st_t", {}, <<>>),
     st_T     |-> Ty("Struct", "st_T", {}, <<"A", "B">>),
     T        |-> Ty("Named", "st_T", {}, <<>>),
     anon     |-> Ty("Struct", "anon", {}, <<"q">>),
     ns       |-> Ty("Named", "slice", {}, <<>>),
     W        |-> Ty("Named", "int", {}, <<>>),
     if_Write |-> Ty("Interface", "if_Write", {Meth(NWrite, "func()")}, <<>>),
     Writer   |-> Ty("Named", "if_Write", {}, <<>>),
     if_read  |-> Ty("Interface", "if_read", {Meth(NRead, "func()")}, <<>>),
     if_Str   |-> Ty("Interface", "if_Str", {Meth(NString, "func() string")}, <<>>),
     Stringer |-> Ty("Named", "if_Str", {}, <<>>),
     if_StrI  |-> Ty("Interface", "if_StrI", {Meth(NString, "func() int")}, <<>>),
     lt       |-> Ty("Named", "if_StrI", {}, <<>>)]

Underlying(t) == Typ[t].under

\* a types.Object: its dynamic type (kind), Name, Pkg, Parent scope,
\* IsField, the receiver of its signature, the file of its position,
\* its Type and (for functions) its signature
Obj(kind, name, pkg, parent, field, recv, file, typ, sig) ==
    [kind |-> kind, name |-> name, pkg |-> pkg, parent |-> parent,
     field |-> field, recv |-> recv, file |-> file, typ |-> typ, sig |-> sig]

Sym ==
    [\* package cmd (name main), file m.go
     c      |-> Obj("Const", <<"c">>, "cmd", "cmd", FALSE, NoRecv, FileMain, "int", ""),
     v      |-> Obj("Var", <<"v">>, "cmd", "cmd", FALSE, NoRecv, FileMain, "int", ""),
     blank  |-> Obj("Var", StrBlank, "cmd", "cmd", FALSE, NoRecv, FileMain, "int", ""),
     s      |-> Obj("Var", <<"s">>, "cmd", "cmd", FALSE, NoRecv, FileMain, "Stringer", ""),
     f      |-> Obj("Func", <<"f">>, "cmd", "cmd", FALSE, NoRecv, FileMain, "sig", "func()"),
     main   |-> Obj("Func", StrMain, "cmd", "cmd", FALSE, NoRecv, FileMain, "sig", "func()"),
     init   |-> Obj("Func", StrInit, "cmd", "cmd", FALSE, NoRecv, FileMain, "sig", "func()"),
     Exp    |-> Obj("Func", <<"E", "x", "p">>, "cmd", "cmd", FALSE, NoRecv, FileMain, "sig", "func()"),
     t      |-> Obj("TypeName", <<"t">>, "cmd", "cmd", FALSE, NoRecv, FileMain, "t", ""),
     a      |-> Obj("Var", <<"a">>, "cmd", NoScope, TRUE, NoRecv, FileMain, "int", ""),
     b      |-> Obj("Var", <<"b">>, "cmd", NoScope, TRUE, NoRecv, FileMain, "int", ""),
     q      |-> Obj("Var", <<"q">>, "cmd", NoScope, TRUE, NoRecv, FileMain, "int", ""),
     ns     |-> Obj("TypeName", <<"n", "s">>, "cmd", "cmd", FALSE, NoRecv, FileMain, "ns", ""),
     ext    |-> Obj("PkgName", <<"e", "x", "t">>, "cmd", "file", FALSE, NoRecv, FileMain, "int", ""),
     \* declared inside a function body of package cmd
     x      |-> Obj("Var", <<"x">>, "cmd", FuncScope, FALSE, NoRecv, FileMain, "int", ""),
     p      |-> Obj("Var", <<"p">>, "cmd", FuncScope, FALSE, NoRecv, FileMain, "if_read", ""),
     lc     |-> Obj("Const", <<"l", "c">>, "cmd", FuncScope, FALSE, NoRecv, FileMain, "int", ""),
     lt     |-> Obj("TypeName", <<"l", "t">>, "cmd", FuncScope, FALSE, NoRecv, FileMain, "lt", ""),
     L      |-> Obj("Label", <<"L">>, "cmd", FuncScope, FALSE, NoRecv, FileMain, "int", ""),
     \* package cmd, file e_test.go (in-package test file)
     T      |-> Obj("TypeName", <<"T">>, "cmd", "cmd", FALSE, NoRecv, FileExport, "T", ""),
     A      |-> Obj("Var", <<"A">>, "cmd", NoScope, TRUE, NoRecv, FileExport, "int", ""),
     B      |-> Obj("Var", <<"B">>, "cmd", NoScope, TRUE, NoRecv, FileExport, "int", ""),
     Helper |-> Obj("Func", <<"H", "e", "l", "p", "e", "r">>, "cmd", "cmd", FALSE, NoRecv, FileExport, "sig", "func()"),
     TestX  |-> Obj("Func", <<"T", "e", "s", "t", "X">>, "cmd", "cmd", FALSE, NoRecv, FileExport, "sig", "func()"),
     W      |-> Obj("TypeName", <<"W">>, "cmd", "cmd", FALSE, NoRecv, FileExport, "W", ""),
     Write  |-> Obj("Func", NWrite, "cmd", NoScope, FALSE, "W", FileExport, "sig", "func()"),
     read   |-> Obj("Func", NRead, "cmd", NoScope, FALSE, "W", FileExport, "sig", "func()"),
     String |-> Obj("Func", NString, "cmd", NoScope, FALSE, "W", FileExport, "sig", "func() string"),
     \* package cmd_test (external test package), file x_test.go
     Writer |-> Obj("TypeName", <<"W", "r", "i", "t", "e", "r">>, "cmd_test", "cmd_test", FALSE, NoRecv, FileXTest, "Writer", ""),
     helper |-> Obj("Func", <<"h", "e", "l", "p", "e", "r">>, "cmd_test", "cmd_test", FALSE, NoRecv, FileXTest, "sig", "func()"),
     \* package ext: imported, not analysed
     extF   |-> Obj("Func", <<"F">>, "ext", "ext", FALSE, NoRecv, FileExt, "sig", "func()"),
     \* the universe scope
     int    |-> Obj("TypeName", <<"i", "n", "t">>, NoPkg, "universe", FALSE, NoRecv, <<>>, "int", "")]

SymIds == DOMAIN Sym
\* the nil object pkg.Defs holds for an identifier that denotes no object
NilObj == "<nil>"

(* ------------------------------------------- predicates on types.Object *)
isPkgScope(obj) == Sym[obj].parent = Sym[obj].pkg

isFunction(obj) == Sym[obj].kind = "Func"

isMethod(obj) ==
    IF ~isFunction(obj) THEN FALSE ELSE Sym[obj].recv # NoRecv

isVariable(obj) == Sym[obj].kind = "Var"

isConstant(obj) == Sym[obj].kind = "Const"

isType(obj) == Sym[obj].kind = "TypeName"

isField(obj) == Sym[obj].kind = "Var" /\ Sym[obj].field

isMain(obj) ==
    IF PkgName[Sym[obj].pkg] # StrMain THEN FALSE
    ELSE IF Sym[obj].name # StrMain THEN FALSE
    ELSE IF ~isPkgScope(obj) THEN FALSE
    ELSE IF ~isFunction(obj) THEN FALSE
    ELSE IF isMethod(obj) THEN FALSE
    ELSE TRUE

checkConstants(mode) == HasBit(mode, CheckConstants)
checkFields(mode) == HasBit(mode, CheckFields)
checkFunctions(mode) == HasBit(mode, CheckFunctions)
checkTypes(mode) == HasBit(mode, CheckTypes)
checkVariables(mode) == HasBit(mode, CheckVariables)

checkFlags(obj, mode) ==
    IF isFunction(obj) /\ ~checkFunctions(mode) THEN FALSE
    ELSE IF isVariable(obj) /\ ~checkVariables(mode) THEN FALSE
    ELSE IF isConstant(obj) /\ ~checkConstants(mode) THEN FALSE
    ELSE IF isType(obj) /\ ~checkTypes(mode) THEN FALSE
    ELSE IF isField(obj) /\ ~checkFields(mode) THEN FALSE
    ELSE TRUE

\* the method set of a type: the methods of an interface, else the
\* methods declared with the type as receiver
MethodSet(typ) ==
    IF Typ[Underlying(typ)].shape = "Interface"
    THEN Typ[Underlying(typ)].methods
    ELSE {Meth(Sym[m].name, Sym[m].sig) :
             m \in {m \in SymIds : Sym[m].kind = "Func" /\ Sym[m].recv = typ}}

\* types.Implements(typ, iface)
Implements(typ, iface) == Typ[iface].methods \subseteq MethodSet(typ)

\* variant: the receiver satisfies some interface, whatever its methods' names
implements_AnyName(obj, ifaces) ==
    \E iface \in ifaces : Implements(Sym[obj].recv, iface)

implements(obj, ifaces) ==
    \E iface \in ifaces :
        /\ Implements(Sym[obj].recv, iface)
        /\ \E m \in Typ[iface].methods : m.name = Sym[obj].name

(* ------------------------------------------------ the filtering phase   *)
\* one iteration of the loop over defs: is obj appended to unused
Reported(obj, used, ifaces, mode) ==
    IF Sym[obj].pkg = NoPkg THEN FALSE
    ELSE IF ~checkFlags(obj, mode) THEN FALSE
    ELSE IF used THEN FALSE
    ELSE IF Sym[obj].name = StrBlank THEN FALSE
    ELSE IF /\ Exported(Sym[obj].name)
            /\ (isPkgScope(obj) \/ isMethod(obj) \/ isField(obj))
            /\ \/ ~HasSuffix(Sym[obj].file, StrTestGo)
               \/ HasPrefix(Sym[obj].name, StrTest)
               \/ HasPrefix(Sym[obj].name, StrBenchmark)
               \/ HasPrefix(Sym[obj].name, StrExample)
         THEN FALSE
    ELSE IF isMain(obj) THEN FALSE
    ELSE IF isFunction(obj) /\ ~isMethod(obj) /\ Sym[obj].name = StrInit THEN FALSE
    ELSE IF isMethod(obj) /\ implements(obj, ifaces) THEN FALSE
    ELSE TRUE

\* the list the loop over defs builds, as a set
UnusedOf(d, ifaces, mode) ==
    {obj \in DOMAIN d : Reported(obj, d[obj], ifaces, mode)}

(* --------------------------------------------- the construction phase   *)
\* pkg.Defs: the objects the package's identifiers define, and nil
Defs(pkg) == {obj \in SymIds : Sym[obj].pkg = pkg} \cup {NilObj}

\* the interfaces one pass over pkg.Defs appends
DefInterfaces(pkg) ==
    {Sym[obj].typ : obj \in {o \in Defs(pkg) \ {NilObj} :
                        isVariable(o) /\ Typ[Sym[o].typ].shape = "Interface"}}
    \cup
    {Underlying(Sym[obj].typ) : obj \in {o \in Defs(pkg) \ {NilObj} :
                        isType(o) /\ Typ[Underlying(Sym[o].typ)].shape = "Interface"}}

\* variant: local variables and parameters are entered too
Entered_Locals(obj) ==
    IF obj = NilObj THEN FALSE
    ELSE IF Sym[obj].kind = "PkgName" THEN FALSE
    ELSE TRUE

\* variant: imported package names are entered too
Entered_PkgNames(obj) ==
    IF obj = NilObj THEN FALSE
    ELSE IF isVariable(obj) /\ ~isPkgScope(obj) /\ ~isField(obj) THEN FALSE
    ELSE TRUE

\* is the object entered into defs with used = false
Entered(obj) ==
    IF obj = NilObj THEN FALSE
    ELSE IF isVariable(obj) /\ ~isPkgScope(obj) /\ ~isField(obj) THEN FALSE
    ELSE IF Sym[obj].kind = "PkgName" THEN FALSE
    ELSE TRUE

\* defs after defs[obj] = val for every obj of objs
SetAll(d, objs, val) ==
    [obj \in DOMAIN d \cup objs |-> IF obj \in objs THEN val ELSE d[obj]]

DefsLoop(d, pkg) == SetAll(d, {obj \in Defs(pkg) : Entered(obj)}, FALSE)

UsesLoop(d, used) == SetAll(d, used, TRUE)

\* the fields the visitor marks for one composite literal
LitFields(lit) ==
    LET named == IF lit.form = "StructType" THEN lit.typ
                 ELSE IF lit.form # "Ident" THEN "none"
                 ELSE IF Typ[Sym[lit.ident].typ].shape # "Named" THEN "none"
                 ELSE Sym[lit.ident].typ
        basic == \E i \in 1..Len(lit.elts) : lit.elts[i] # "kv"
    IN  IF named = "none" THEN {}
        ELSE IF Typ[Underlying(named)].shape # "Struct" THEN {}
        ELSE IF ~basic THEN {}
        ELSE {Typ[Underlying(named)].fields[i] :
                 i \in 1..Len(Typ[Underlying(named)].fields)}

WalkFiles(d, literals) ==
    SetAll(d, UNION {LitFields(lit) : lit \in literals}, TRUE)

(* ------------------------------------------------- the program model    *)
\* a composite literal of a syntax tree: the package of its file, the form
\* of its type expression, the identifier naming the type (Ident and
\* Selector forms), the type pkg.TypeOf gives the node, its elements and
\* the fields its key-value elements name
Lit(pkg, form, ident, typ, elts, keys) ==
    [pkg |-> pkg, form |-> form, ident |-> ident, typ |-> typ,
     elts |-> elts, keys |-> keys]

LitChoices ==
    {Lit("cmd", "Ident", "t", "t", <<"pos", "pos">>, {}),         \* t{1, 2}
     Lit("cmd", "Ident", "t", "t", <<"kv">>, {"a"}),              \* t{a: 1}
     Lit("cmd", "StructType", "none", "anon", <<"pos">>, {}),     \* struct{q int}{1}
     Lit("cmd", "Elided", "none", "t", <<"pos", "pos">>, {}),     \* []t{{1, 2}}
     Lit("cmd_test", "Selector", "T", "T", <<"pos", "pos">>, {}), \* main.T{1, 2}
     Lit("cmd", "Ident", "ns", "ns", <<"pos">>, {})}              \* ns{1}

\* the identifier occurrences a program may hold besides its literals
UseChoices ==
    {<<"cmd", "c">>, <<"cmd", "x">>, <<"cmd", "int">>, <<"cmd", "extF">>,
     <<"cmd", "Helper">>, <<"cmd_test", "Helper">>, <<"cmd_test", "A">>}

Programs ==
    {prog \in [uses : {u \in SUBSET UseChoices : Cardinality(u) <= MaxUses},
               lits : {{}} \cup {{lit} : lit \in LitChoices}] : TRUE}

\* the arguments Check is called with
PathInputs == {<<".">>, <<".", "nosuch">>}

NoErr == "nil"
NotCalled == "notcalled"

VARIABLES
    uses,        \* the program: identifier occurrences <<package, object>>
    lits,        \* the program: composite literals
    Mode,        \* Checker.Mode
    Fset,        \* Checker.Fset: 0 is nil, n the FileSet of the n-th call
    runs,        \* calls of Check so far
    pc,          \* the position of the running call
    paths,       \* the caller's slice of import paths
    order,       \* lprog.InitialPackages()
    idx,         \* the package the outer loop is at
    defs,        \* map[types.Object]bool
    interfaces,  \* []*types.Interface
    ret          \* what the last finished call returned

vars == <<uses, lits, Mode, Fset, runs, pc, paths, order, idx, defs, interfaces, ret>>

EmptyMap == [obj \in {} |-> FALSE]

\* pkg.Uses, as the type checker records it: the chosen occurrences, the
\* type names of the literals and the fields their key-value elements name
Uses(pkg) ==
    {u[2] : u \in {u \in uses : u[1] = pkg}}
    \cup UNION {lit.keys : lit \in {l \in lits : l.pkg = pkg}}
    \cup {lit.ident : lit \in {l \in lits : l.pkg = pkg /\ l.ident # "none"}}

\* the composite literals of pkg.Files
Literals(pkg) == {lit \in lits : lit.pkg = pkg}

\* build.Import(path, wd, build.FindOnly): the import path, or an error
BuildImport(path) ==
    IF path \in {".", "cmd"} THEN [path |-> "cmd", err |-> NoErr]
    ELSE [path |-> path, err |-> "ResolutionError"]

\* the loop of resolveRelative from index i on
RECURSIVE resolveFrom(_, _)
resolveFrom(importPaths, i) ==
    IF i > Len(importPaths) THEN [paths |-> importPaths, err |-> NoErr]
    ELSE IF BuildImport(importPaths[i]).err # NoErr
         THEN [paths |-> importPaths, err |-> BuildImport(importPaths[i]).err]
    ELSE resolveFrom([importPaths EXCEPT ![i] = BuildImport(importPaths[i]).path], i + 1)

resolveRelative(importPaths) == resolveFrom(importPaths, 1)

\* the external test package conf.ImportWithTests adds for a path
TestPkgOf == [cmd |-> "cmd_test"]

\* lprog.InitialPackages() after conf.ImportWithTests(path) for every path
InitialPackages(ps) ==
    UNION {{ps[i], TestPkgOf[ps[i]]} : i \in 1..Len(ps)}

Orders(pkgs) ==
    {o \in [1..Cardinality(pkgs) -> pkgs] : \A i, j \in DOMAIN o : i # j => o[i] # o[j]}

Init ==
    /\ \E prog \in Programs : uses = prog.uses /\ lits = prog.lits
    /\ Mode \in Modes
    /\ Fset = 0
    /\ runs = 0
    /\ pc = "idle"
    /\ paths = <<>>
    /\ order = <<>>
    /\ idx = 0
    /\ defs = EmptyMap
    /\ interfaces = {}
    /\ ret = [list |-> {}, err |-> NotCalled]

\* c.Check(paths) is called
Call ==
    /\ pc \in {"idle", "done", "failed"}
    /\ runs < MaxRuns
    /\ \E ps \in PathInputs : paths' = ps
    /\ runs' = runs + 1
    /\ pc' = "resolve"
    /\ order' = <<>>
    /\ idx' = 0
    /\ defs' = EmptyMap
    /\ interfaces' = {}
    /\ UNCHANGED <<uses, lits, Mode, Fset, ret>>

\* resolveRelative returns nil; defs, interfaces and unused are created
ResolveOk ==
    /\ pc = "resolve"
    /\ resolveRelative(paths).err = NoErr
    /\ paths' = resolveRelative(paths).paths
    /\ pc' = "load"
    /\ UNCHANGED <<uses, lits, Mode, Fset, runs, order, idx, defs, interfaces, ret>>

\* resolveRelative returns an error: os.Getwd failed, or a path is not found
ResolveFail ==
    /\ pc = "resolve"
    /\ \/ /\ paths' = paths
          /\ ret' = [list |-> {}, err |-> "GetwdError"]
       \/ /\ resolveRelative(paths).err # NoErr
          /\ paths' = resolveRelative(paths).paths
          /\ ret' = [list |-> {}, err |-> resolveRelative(paths).err]
    /\ pc' = "failed"
    /\ UNCHANGED <<uses, lits, Mode, Fset, runs, order, idx, defs, interfaces>>

\* conf.Load succeeds: the provider yields the initial packages in some order
LoadOk ==
    /\ pc = "load"
    /\ \E o \in Orders(InitialPackages(paths)) : order' = o
    /\ idx' = 1
    /\ pc' = "defs"
    /\ UNCHANGED <<uses, lits, Mode, Fset, runs, paths, defs, interfaces, ret>>

\* variant: the position table is recorded before the error is returned
LoadFail_SetsFset ==
    /\ pc = "load"
    /\ ret' = [list |-> {}, err |-> "LoadError"]
    /\ Fset' = runs
    /\ pc' = "failed"
    /\ UNCHANGED <<uses, lits, Mode, runs, paths, order, idx, defs, interfaces>>

\* conf.Load returns an error
LoadFail ==
    /\ pc = "load"
    /\ ret' = [list |-> {}, err |-> "LoadError"]
    /\ pc' = "failed"
    /\ UNCHANGED <<uses, lits, Mode, Fset, runs, paths, order, idx, defs, interfaces>>

\* the loop over pkg.Defs of the package the outer loop is at
DefsPass ==
    /\ pc = "defs"
    /\ interfaces' = interfaces \cup DefInterfaces(order[idx])
    /\ defs' = DefsLoop(defs, order[idx])
    /\ pc' = "uses"
    /\ UNCHANGED <<uses, lits, Mode, Fset, runs, paths, order, idx, ret>>

\* the loop over pkg.Uses
UsesPass ==
    /\ pc = "uses"
    /\ defs' = UsesLoop(defs, Uses(order[idx]))
    /\ pc' = "lits"
    /\ UNCHANGED <<uses, lits, Mode, Fset, runs, paths, order, idx, interfaces, ret>>

\* ast.Walk over pkg.Files; then the next package, or the filtering loop
LitsPass ==
    /\ pc = "lits"
    /\ defs' = WalkFiles(defs, Literals(order[idx]))
    /\ IF idx < Len(order)
       THEN idx' = idx + 1 /\ pc' = "defs"
       ELSE idx' = idx /\ pc' = "filter"
    /\ UNCHANGED <<uses, lits, Mode, Fset, runs, paths, order, interfaces, ret>>

\* the loop over defs, c.Fset = lprog.Fset, return unused, nil
Filter ==
    /\ pc = "filter"
    /\ ret' = [list |-> UnusedOf(defs, interfaces, Mode), err |-> NoErr]
    /\ Fset' = runs
    /\ pc' = "done"
    /\ UNCHANGED <<uses, lits, Mode, runs, paths, order, idx, defs, interfaces>>

Next ==
    \/ Call
    \/ ResolveOk
    \/ ResolveFail
    \/ LoadOk
    \/ LoadFail
    \/ DefsPass
    \/ UsesPass
    \/ LitsPass
    \/ Filter

Spec == Init /\ [][Next]_vars

(* ====================================================== the properties  *)
Analysed == {"cmd", "cmd_test"}
SingleKindMasks ==
    {CheckConstants, CheckFields, CheckFunctions, CheckTypes, CheckVariables}
AllKinds ==
    CheckConstants + CheckFields + CheckFunctions + CheckTypes + CheckVariables

\* some usage table of an analysed package holds an occurrence of obj
Referenced(obj) == \E pkg \in Analysed : obj \in Uses(pkg)

\* the struct type of a literal with a positional element, else "none"
PositionalStruct(lit) ==
    IF /\ Typ[Underlying(lit.typ)].shape = "Struct"
       /\ \E i \in 1..Len(lit.elts) : lit.elts[i] = "pos"
    THEN Underlying(lit.typ) ELSE "none"

PositionalFields ==
    UNION {{Typ[PositionalStruct(lit)].fields[i] :
               i \in 1..Len(Typ[PositionalStruct(lit)].fields)} :
           lit \in {l \in lits : PositionalStruct(l) # "none"}}

DeclaredInFunc(obj) == Sym[obj].parent = FuncScope
LocalVariable(obj) == Sym[obj].kind = "Var" /\ DeclaredInFunc(obj)
PackageScope(obj) == Sym[obj].parent = Sym[obj].pkg
Method(obj) == Sym[obj].kind = "Func" /\ Sym[obj].recv # NoRecv
Field(obj) == Sym[obj].kind = "Var" /\ Sym[obj].field
InTestFile(obj) == HasSuffix(Sym[obj].file, StrTestGo)
EntryPointName(obj) ==
    \/ HasPrefix(Sym[obj].name, StrTest)
    \/ HasPrefix(Sym[obj].name, StrBenchmark)
    \/ HasPrefix(Sym[obj].name, StrExample)

\* the kind of the data model (Constant, Variable, Function or Method,
\* TypeName, Field) is selected by the mask
KindSelected(obj, mode) ==
    \/ Sym[obj].kind = "Const" /\ HasBit(mode, CheckConstants)
    \/ Field(obj) /\ HasBit(mode, CheckFields)
    \/ Sym[obj].kind = "Func" /\ HasBit(mode, CheckFunctions)
    \/ Sym[obj].kind = "TypeName" /\ HasBit(mode, CheckTypes)
    \/ Sym[obj].kind = "Var" /\ ~Field(obj) /\ HasBit(mode, CheckVariables)

\* the contracts of the variable declarations whose type is an interface
\* type and of the type declarations whose underlying type is one
Contracts ==
    {Sym[obj].typ : obj \in {o \in SymIds :
        Sym[o].pkg \in Analysed /\ Sym[o].kind = "Var"
        /\ Typ[Sym[o].typ].shape = "Interface"}}
    \cup
    {Typ[Sym[obj].typ].under : obj \in {o \in SymIds :
        Sym[o].pkg \in Analysed /\ Sym[o].kind = "TypeName"
        /\ Typ[Typ[Sym[o].typ].under].shape = "Interface"}}

\* some contract that the receiver of the method satisfies declares a
\* method of its name
HasContract(obj) ==
    \E con \in Contracts :
        /\ Typ[con].methods \subseteq MethodSet(Sym[obj].recv)
        /\ \E m \in Typ[con].methods : m.name = Sym[obj].name

ExportAmnesty(obj) ==
    /\ Exported(Sym[obj].name)
    /\ (PackageScope(obj) \/ Method(obj) \/ Field(obj))
    /\ (~InTestFile(obj) \/ EntryPointName(obj))

MainEntry(obj) ==
    /\ Sym[obj].kind = "Func" /\ Sym[obj].recv = NoRecv /\ PackageScope(obj)
    /\ Sym[obj].name = StrMain /\ PkgName[Sym[obj].pkg] = StrMain

Initializer(obj) ==
    Sym[obj].kind = "Func" /\ Sym[obj].recv = NoRecv /\ Sym[obj].name = StrInit

\* the candidate definitions of the analysed packages
Candidates ==
    {obj \in SymIds : /\ Sym[obj].pkg \in Analysed
                      /\ ~LocalVariable(obj)
                      /\ Sym[obj].kind # "PkgName"}

\* C1: a symbol defined in an analysed package that some usage table of an
\* analysed package references is not in the list Check returns, whatever
\* the order of the packages.
C1_ReferencedNotReported ==
    pc = "done" =>
        \A obj \in SymIds :
            Sym[obj].pkg \in Analysed /\ Referenced(obj) => obj \notin ret.list

\* C2: the union of the results under the five single-kind masks equals
\* the result under all five bits (the construction phase does not read
\* the mask, so the result under mask m is UnusedOf(defs, interfaces, m)).
C2_MaskIndependence ==
    pc = "done" /\ Mode = AllKinds =>
        ret.list = UNION {UnusedOf(defs, interfaces, m) : m \in SingleKindMasks}

\* C3: every field of the struct type of a literal with a positional
\* element is absent from the result, however the literal's type is written.
C3_PositionalFieldsNotReported ==
    pc = "done" => PositionalFields \cap ret.list = {}

\* C4 as stated: only package-scope bindings, methods and fields are
\* entered as candidates or reported; nothing declared in a function body.
C4_NothingLocal ==
    /\ \A obj \in DOMAIN defs :
          ~defs[obj] => ~DeclaredInFunc(obj)
    /\ \A obj \in ret.list :
          PackageScope(obj) \/ Method(obj) \/ Field(obj)

\* C4 as amended: no local variable or parameter is entered as a candidate
\* or reported; a reported symbol is a package-scope binding, a method, a
\* field, or a constant, type or label declared in a function body.
C4_NoLocalVariable ==
    /\ \A obj \in DOMAIN defs : LocalVariable(obj) => defs[obj]
    /\ \A obj \in ret.list :
          /\ ~LocalVariable(obj)
          /\ \/ PackageScope(obj) \/ Method(obj) \/ Field(obj)
             \/ DeclaredInFunc(obj) /\ Sym[obj].kind \in {"Const", "TypeName", "Label"}

C4_Witness ==
    /\ pc = "done"
    /\ "x" \in DOMAIN defs
    /\ "lc" \in ret.list
    /\ "a" \in ret.list

\* C5: an exported package-scope symbol, method or field is not reported
\* when declared outside test files or named Test*, Benchmark*, Example*;
\* declared in a test file without such a name, unreferenced, its kind
\* selected and no other amnesty applying, it is reported.
C5_ExportExemption ==
    pc = "done" =>
        \A obj \in Candidates :
            /\ ExportAmnesty(obj) => obj \notin ret.list
            /\ ( /\ Exported(Sym[obj].name)
                 /\ (PackageScope(obj) \/ Method(obj) \/ Field(obj))
                 /\ InTestFile(obj) /\ ~EntryPointName(obj)
                 /\ ~Referenced(obj) /\ obj \notin PositionalFields
                 /\ KindSelected(obj, Mode)
                 /\ Sym[obj].name # StrBlank
                 /\ ~MainEntry(obj) /\ ~Initializer(obj)
                 /\ ~(Method(obj) /\ HasContract(obj)) )
               => obj \in ret.list

C7_FailureAllOrNothing ==
    [][ /\ pc' \in {"resolve", "load", "failed"} => defs' = EmptyMap
        /\ pc # "failed" /\ pc' = "failed" =>
              /\ ret'.err \notin {NoErr, NotCalled}
              /\ ret'.list = {}
              /\ Fset' = Fset ]_vars

C7_Witness ==
    /\ pc = "failed"
    /\ ret.err = "LoadError"
    /\ Fset # 0

\* C8: a second call on the same program with the same mask returns the
\* same set as the call before it, whatever order the packages come in.
C8_Idempotent ==
    [][ pc = "filter" /\ pc' = "done" /\ ret.err = NoErr
            => ret'.list = ret.list ]_vars

\* C9: within a run the used flag of an entry never goes from true to false.
C9_UsedMonotonic ==
    [][ \A obj \in DOMAIN defs \cap DOMAIN defs' : defs[obj] => defs'[obj] ]_vars

\* C10 as stated: after construction the keys of the table are exactly the
\* candidate definitions; usages and literals add no entry.
C10_KeysAreCandidates ==
    pc \in {"filter", "done"} => DOMAIN defs = Candidates

\* C10 as amended: after construction every candidate definition is a key,
\* every referenced symbol is a key, and a key that is no candidate was
\* added by a usage or a positional literal with used = true.
C10_KeysCandidatesOrUsed ==
    pc \in {"filter", "done"} =>
        /\ Candidates \subseteq DOMAIN defs
        /\ \A obj \in DOMAIN defs \ Candidates :
              defs[obj] /\ (Referenced(obj) \/ obj \in PositionalFields)

C10_Witness ==
    /\ pc = "filter"
    /\ {"x", "int"} \subseteq DOMAIN defs
    /\ "ext" \notin DOMAIN defs

====
